---- MODULE Spec2Model ----
(***************************************************************************)
(* Data ingestion service: the ingestion goroutine (Service.Start,         *)
(* IngestData, fetchPosts, fetchPostsOnce, transformPosts), the run        *)
(* context, the ticker channel, the DynamoDB post and status tables, and   *)
(* main as far as it starts the goroutine and cancels the run context.     *)
(***************************************************************************)
EXTENDS Integers, Sequences, FiniteSets, TLC

\* ------------------------------------------------------------------ bounds
MaxRetry == 4
MaxId == 2
MaxBatch == 2
MaxClock == 2

\* ------------------------------------------------------------ value domains
\* RETRY_COUNT and INGESTION_INTERVAL as getEnvInt / getEnvDuration yield them:
\* any integer that parses, negative and zero included.  Of the interval only
\* the sign is ever looked at (time.NewTicker), one value per sign is kept.
RetryCounts == (0 - 1)..MaxRetry
Intervals == {0 - 1, 0, 1}

\* an error is the chain of messages produced by fmt.Errorf("...: %w", err),
\* outermost first; the nil error is the empty chain.
E(m, k) == [msg |-> m, n |-> k]
Nil == <<>>
Wrap(m, k, err) == <<E(m, k)>> \o err
CtxErr == <<E("context canceled", 0)>>

\* models.Post
PostSet == [userId : {1}, id : 1..MaxId, title : {"T"}, body : {"B"}]
\* a decoded response body: posts with pairwise distinct ids, listed by
\* ascending id as the endpoint lists them
Batches ==
    {b \in UNION {[1..n -> PostSet] : n \in 0..MaxBatch} :
        \A i, j \in 1..Len(b) : i < j => b[i].id < b[j].id}
NilPosts == <<>>

\* an absent item of the post table / of the status table
NoItem == [userId |-> 0, id |-> 0, title |-> "", body |-> "", ingestedAt |-> 0,
           source |-> ""]
NoStatus == [present |-> FALSE, status |-> "", records |-> 0]

\* what one HTTP exchange can end in when the context is not cancelled
FailKinds == {"transport", "status", "read", "decode"}

\* --------------------------------------------------------------- variables
VARIABLES
    config,        \* config.IngestionConfig: RetryCount, Interval, endpoint validity
    cancelled,     \* the run context is done
    pc,            \* position of the goroutine running Service.Start
    chosen,        \* case a blocked select has been woken with
    cycleKind,     \* call site of the running IngestData: "initial" | "periodic"
    attempt,       \* fetchPosts loop variable
    lastErr,       \* fetchPosts lastErr
    posts,         \* records returned by fetchPosts
    fetchErr,      \* error returned by fetchPosts
    transformed,   \* argument of StorePosts
    storeIdx,      \* index of the record StorePosts is writing
    storeErr,      \* error returned by StorePosts
    cycleErr,      \* error returned by IngestData
    startRet,      \* error returned by Start
    logged,        \* error printed by the handler of the latest tick
    tickerState,   \* "none" | "running" | "stopped"
    tickPending,   \* number of ticks held by the channel ticker.C
    dropped,       \* a tick found ticker.C full during the running IngestData
    calls,         \* fetchPostsOnce calls made by the running fetchPosts
    waits,         \* durations (s) handed to time.After by the running fetchPosts
    responses,     \* outcome of each attempt of the running fetchPosts
    storeCalls,    \* StorePosts calls made by the running IngestData
    active,        \* IngestData invocations in progress
    table,         \* DynamoDB post table: id -> item
    statusTable,   \* the table tableName + "_status" exists
    statusItem,    \* item "ingestion_status" of the status table
    clock,         \* wall clock (time.Now): reading number of the next transformPosts call
    mainPc,        \* position of main: "wait_signal" | "shutdown" | "done" | "exited"
    mainLogged,    \* error printed by the goroutine of main that called Start
    closeCalls,    \* calls of store.Close made by main
    scanOrder,     \* order in which a Scan of the post table lists the ids
    req,           \* latest request handled by the API server
    resp           \* its response, with the Storage methods the handler called

mainVars == <<mainPc, mainLogged, closeCalls>>

\* the status table is neither created nor dropped by any code path
storageVars == <<statusTable>>

apiVars == <<scanOrder, req, resp>>

ingestVars == <<mainVars, storageVars, config, cancelled, pc, chosen, cycleKind, attempt,
                lastErr, posts, fetchErr, transformed, storeIdx, storeErr, cycleErr,
                startRet, logged, tickerState, tickPending, dropped, calls, waits,
                responses, storeCalls, active, table, statusItem, clock>>

vars == <<ingestVars, apiVars>>

RetryCount == config.RetryCount
Interval == config.Interval

\* ---------------------------------------------------------- pure functions
\* Each decision of the code is one definition.  Where a definition is
\* preceded by another of the same arity and a longer name, that one is a
\* faulty variant of the code, used to show that a property depends on it.
\* fetchPosts: loop condition  attempt < s.config.RetryCount
HasAttempt(a, rc) == a < rc

\* fetchPosts: every error of fetchPostsOnce, whatever its kind, is kept in
\* lastErr and retried
RetryableTransportOnly(err) == err[1].msg = "failed to make request"
Retryable(err) == TRUE

\* fetchPosts: a backoff follows a failed attempt unless it was the last one
ShouldWaitAlways(a, rc) == TRUE
ShouldWait(a, rc) == a < rc - 1

\* fetchPosts: waitTime := time.Duration(attempt+1) * time.Second  (in seconds)
BackoffWaitConstant(a) == 1
BackoffWait(a) == a + 1

\* fetchPosts: case <-ctx.Done(): return nil, ctx.Err()
BackoffCancelErrLast(last) == last
BackoffCancelErr(last) == CtxErr

\* fetchPosts: error after the loop
ExhaustedErr(rc, last) == Wrap("failed after attempts", rc, last)

\* fetchPostsOnce: the error of a failed attempt, by kind
AttemptErr(kind) ==
    CASE kind = "create"    -> Wrap("failed to create request", 0, <<E("parse url", 0)>>)
      [] kind = "cancelled" -> Wrap("failed to make request", 0, CtxErr)
      [] kind = "transport" -> Wrap("failed to make request", 0, <<E("dial", 0)>>)
      [] kind = "status"    -> <<E("API returned status", 500)>>
      [] kind = "read"      -> Wrap("failed to read response body", 0, <<E("unexpected EOF", 0)>>)
      [] kind = "decode"    -> Wrap("failed to unmarshal response", 0, <<E("invalid character", 0)>>)

\* fetchPostsOnce: what it returns for an exchange that ends as kind, body
\* being what the response body decodes to (as far as it decodes)
fetchPostsOncePartial(kind, body) ==
    IF kind = "ok"
    THEN [posts |-> body, err |-> Nil]
    ELSE [posts |-> IF kind = "decode" THEN body ELSE NilPosts,
          err |-> AttemptErr(kind)]
fetchPostsOnce(kind, body) ==
    IF kind = "ok"
    THEN [posts |-> body, err |-> Nil]
    ELSE [posts |-> NilPosts, err |-> AttemptErr(kind)]

\* transformPosts: one element per input, in input order, all stamped with the
\* one time.Now() read before the loop
transformPostsReversed(ps, now) ==
    [i \in 1..Len(ps) |->
        [userId |-> ps[Len(ps) + 1 - i].userId, id |-> ps[Len(ps) + 1 - i].id,
         title |-> ps[Len(ps) + 1 - i].title, body |-> ps[Len(ps) + 1 - i].body,
         ingestedAt |-> now, source |-> "placeholder_api"]]
transformPosts(ps, now) ==
    [i \in 1..Len(ps) |->
        [userId |-> ps[i].userId, id |-> ps[i].id, title |-> ps[i].title,
         body |-> ps[i].body, ingestedAt |-> now, source |-> "placeholder_api"]]

\* IngestData: wrapping of the step errors
FetchStepErr(err) == Wrap("failed to fetch posts", 0, err)
StoreStepErr(err) == Wrap("failed to store posts", 0, err)

\* IngestData: StorePosts is reached only when fetchPosts returned no error
ReachesStoreAlways(err) == TRUE
ReachesStore(err) == err = Nil

\* IngestData: the value handed to StorePosts
StoreArg(ps, now) == transformPosts(ps, now)

\* DynamoDBStorage.StorePosts: PutItem writes the record under its id
PutItemIfAbsent(t, item) ==
    IF t[item.id] = NoItem THEN [t EXCEPT ![item.id] = item] ELSE t
PutItem(t, item) == [t EXCEPT ![item.id] = item]

\* DynamoDBStorage.StorePosts: when PutItem of record j of arg fails, StorePosts
\* returns at once and leaves the table as the earlier writes made it
TableOnPutFailureRollback(t, arg, j) ==
    [id \in DOMAIN t |->
        IF \E i \in 1..(j - 1) : arg[i].id = id THEN NoItem ELSE t[id]]
TableOnPutFailure(t, arg, j) == t

\* DynamoDBStorage.StorePosts: error of a failed PutItem
PutErr(id, cause) == Wrap("failed to store post", id, cause)

\* Start: error returned when the initial cycle failed
InitialErr(err) == Wrap("initial ingestion failed", 0, err)

\* Start: the initial cycle's error ends Start
InitialFailsNever(err) == FALSE
InitialFails(err) == err # Nil

\* Start: a periodic cycle's error is printed, Start goes back to the select
PeriodicFailsOnError(err) == err # Nil
PeriodicFails(err) == FALSE

\* Start: case <-ctx.Done(): return ctx.Err()
DoneResultNil == Nil
DoneResult == CtxErr

\* main: an error returned by Start is printed with log.Printf by the
\* goroutine that called Start; main itself stays blocked on sigChan
StartErrorEndsProcess(err) == FALSE

\* a goroutine takes steps only while the process has not ended
ProcessAlive(m) == m # "exited"

\* main: nothing between cancel() and the return of main waits for the
\* goroutine running Start
ExitAllowedWhenStopped(p) == p \in {"idle", "returned"}
ExitAllowed(p) == TRUE

\* main: cancel() is the statement after httpServer.Shutdown
CancelBeforeShutdown(m) == m = "wait_signal"
CancelPoint(m) == m = "shutdown"

\* main: the HTTP server accepts requests until httpServer.Shutdown is called
Serving(m) == m = "wait_signal"

\* time.NewTicker panics on a non-positive interval
TickerPanics(d) == d <= 0

\* Start: the ticker channel is received from only in the select of the loop,
\* which is reached again only after the tick handler has returned
AtSelectOrBusy(p) == p \in {"select", "loop", "http", "backoff", "fetched", "store"}
AtSelect(p) == p = "select"

\* Start: the goroutine is inside the handler of a tick or the initial cycle
Busy(p) == p \in {"loop", "http", "backoff", "fetched", "store", "cycle_ret"}

\* time.NewTicker: ticker.C holds at most one tick, the ticker does not block
\* on a full channel
ChannelFullAtTwo(n) == n >= 2
ChannelFull(n) == n >= 1

\* Start: the cases of the select of the loop
SelectCasesTickOnly == {"tick"}
SelectCases == {"done", "tick"}

\* fetchPosts: the cases of the select of the backoff
BackoffCases == {"done", "timer"}

\* a select: the cases that can proceed when it is entered
SelectReady(c, t) ==
    {x \in SelectCases : (x = "done" /\ c) \/ (x = "tick" /\ t)}

\* NewDynamoDBStorage / ensureTable: only d.tableName is described and, when
\* missing, created.  The status table exists after construction only if it
\* existed before; that case is explored for runs with RetryCount 1.
StatusTableAfterEnsure(c) == IF c.RetryCount = 1 THEN BOOLEAN ELSE {FALSE}

\* DynamoDBStorage.GetIngestionStatus: GetItem on the status table; a failed
\* GetItem (the table does not exist) is returned as an error, an absent item
\* gives the default record
GetIngestionStatus(exists, item) ==
    IF ~exists
    THEN [status |-> "", records |-> 0,
          err |-> Wrap("failed to get ingestion status", 0, <<E("ResourceNotFoundException", 0)>>)]
    ELSE IF ~item.present
         THEN [status |-> "never_run", records |-> 0, err |-> Nil]
         ELSE [status |-> item.status, records |-> item.records, err |-> Nil]

\* DynamoDB Scan: the items of the table in an order that the keys fix (their
\* hash), the same for every scan of an unchanged table; order is that order
\* of the ids
ScanOrders == {o \in [1..MaxId -> 1..MaxId] : \A i, j \in 1..MaxId : o[i] = o[j] => i = j}
Scan(t, order) ==
    LET present == SelectSeq(order, LAMBDA id : t[id] # NoItem)
    IN  [i \in 1..Len(present) |-> t[present[i]]]

\* DynamoDBStorage.GetPosts: one Scan with Limit set to limit; offset is not
\* used.  fail: the Scan call returns an error
GetPosts(t, order, limit, offset, fail) ==
    IF fail
    THEN [posts |-> <<>>, err |-> Wrap("failed to scan posts", 0, <<E("dynamodb", 0)>>)]
    ELSE LET all == Scan(t, order)
         IN  [posts |-> SubSeq(all, 1, IF limit < Len(all) THEN limit ELSE Len(all)),
              err |-> Nil]

\* DynamoDBStorage.GetPostByID: GetItem by id; an absent item is (nil, nil).
\* fail: the GetItem call returns an error
GetPostByID(t, id, fail) ==
    IF fail
    THEN [post |-> NoItem, found |-> FALSE,
          err |-> Wrap("failed to get post", id, <<E("dynamodb", 0)>>)]
    ELSE IF id \in DOMAIN t /\ t[id] # NoItem
         THEN [post |-> t[id], found |-> TRUE, err |-> Nil]
         ELSE [post |-> NoItem, found |-> FALSE, err |-> Nil]

\* Server.handleStatus: GET /status answers 500 when GetIngestionStatus returns
\* an error, else 200 with the record
handleStatus(res) ==
    IF res.err # Nil
    THEN [code |-> 500, status |-> "", records |-> 0]
    ELSE [code |-> 200, status |-> res.status, records |-> res.records]

\* strconv.Atoi on the strings a query parameter or a path segment is drawn
\* from: the decimal numerals parse, the empty string and "abc" do not
ParamInts == (0 - 1)..(MaxId + 1)
ParamStrings == {"", "abc"} \cup {ToString(n) : n \in ParamInts}
Atoi(str) ==
    IF \E n \in ParamInts : ToString(n) = str
    THEN [n |-> CHOOSE n \in ParamInts : ToString(n) = str, err |-> FALSE]
    ELSE [n |-> 0, err |-> TRUE]

Methods == {"GET", "POST"}
NoRequest == [route |-> "", method |-> "", limit |-> "", offset |-> "", id |-> "",
              fail |-> FALSE]
NoResponse == [code |-> 0, calls |-> <<>>, body |-> <<>>]
MethodNotAllowed == [code |-> 405, calls |-> <<>>, body |-> <<>>]

\* Server.handleHealth: no method check, no storage call
handleHealthTouching(method) ==
    [code |-> 200, calls |-> <<"UpdateIngestionStatus">>, body |-> [status |-> "healthy"]]
handleHealth(method) ==
    [code |-> 200, calls |-> <<>>, body |-> [status |-> "healthy"]]

\* Server.handlePosts: limit and offset start at their defaults and are replaced
\* by a parameter that is present, parses and is in range; passed is the
\* argument list of Storage.GetPosts
DefaultLimit == 10
DefaultOffset == 0
handlePostsZeroLimit(method, limitStr, offsetStr, t, order, fail) ==
    IF method # "GET" THEN MethodNotAllowed
    ELSE LET l == Atoi(limitStr)
             o == Atoi(offsetStr)
             limit == IF limitStr # "" /\ ~l.err /\ l.n >= 0 THEN l.n ELSE DefaultLimit
             offset == IF offsetStr # "" /\ ~o.err /\ o.n >= 0 THEN o.n ELSE DefaultOffset
             res == GetPosts(t, order, limit, offset, fail)
         IN  IF res.err # Nil
             THEN [code |-> 500, calls |-> <<"GetPosts">>, body |-> <<>>]
             ELSE [code |-> 200, calls |-> <<"GetPosts">>,
                   body |-> [posts |-> res.posts, count |-> Len(res.posts),
                             limit |-> limit, offset |-> offset,
                             passed |-> [limit |-> limit, offset |-> offset]]]
handlePosts(method, limitStr, offsetStr, t, order, fail) ==
    IF method # "GET" THEN MethodNotAllowed
    ELSE LET l == Atoi(limitStr)
             o == Atoi(offsetStr)
             limit == IF limitStr # "" /\ ~l.err /\ l.n > 0 THEN l.n ELSE DefaultLimit
             offset == IF offsetStr # "" /\ ~o.err /\ o.n >= 0 THEN o.n ELSE DefaultOffset
             res == GetPosts(t, order, limit, offset, fail)
         IN  IF res.err # Nil
             THEN [code |-> 500, calls |-> <<"GetPosts">>, body |-> <<>>]
             ELSE [code |-> 200, calls |-> <<"GetPosts">>,
                   body |-> [posts |-> res.posts, count |-> Len(res.posts),
                             limit |-> limit, offset |-> offset,
                             passed |-> [limit |-> limit, offset |-> offset]]]

\* Server.handlePostByID: idStr is the path after "/posts/" (the pattern
\* "/posts/" of the mux hands over no shorter path)
handlePostByIDEmptyOk(method, idStr, t, fail) ==
    IF method # "GET" THEN MethodNotAllowed
    ELSE LET a == Atoi(idStr)
         IN  IF a.err
             THEN [code |-> 400, calls |-> <<>>, body |-> <<>>]
             ELSE LET r == GetPostByID(t, a.n, fail)
                  IN  IF r.err # Nil
                      THEN [code |-> 500, calls |-> <<"GetPostByID">>, body |-> <<>>]
                      ELSE [code |-> 200, calls |-> <<"GetPostByID">>, body |-> r.post]
handlePostByID(method, idStr, t, fail) ==
    IF method # "GET" THEN MethodNotAllowed
    ELSE LET a == Atoi(idStr)
         IN  IF a.err
             THEN [code |-> 400, calls |-> <<>>, body |-> <<>>]
             ELSE LET r == GetPostByID(t, a.n, fail)
                  IN  IF r.err # Nil
                      THEN [code |-> 500, calls |-> <<"GetPostByID">>, body |-> <<>>]
                      ELSE IF ~r.found
                           THEN [code |-> 404, calls |-> <<"GetPostByID">>, body |-> <<>>]
                           ELSE [code |-> 200, calls |-> <<"GetPostByID">>,
                                 body |-> r.post]

\* IngestData never calls UpdateIngestionStatus: the status item after a cycle
StatusAfterCycleSuccess(item, err, n) ==
    [present |-> TRUE, status |-> "success", records |-> n]
StatusAfterCycle(item, err, n) == item

\* --------------------------------------------------------------------- Init
\* main before the signal, Start not yet called, no request handled
Idle ==
    /\ cancelled = FALSE
    /\ pc = "idle"
    /\ chosen = "none"
    /\ cycleKind = "initial"
    /\ attempt = 0
    /\ lastErr = Nil
    /\ posts = NilPosts
    /\ fetchErr = Nil
    /\ transformed = <<>>
    /\ storeIdx = 0
    /\ storeErr = Nil
    /\ cycleErr = Nil
    /\ startRet = Nil
    /\ logged = Nil
    /\ tickerState = "none"
    /\ tickPending = 0
    /\ dropped = FALSE
    /\ calls = 0
    /\ waits = <<>>
    /\ responses = <<>>
    /\ storeCalls = 0
    /\ active = 0
    /\ clock = 1
    /\ mainPc = "wait_signal"
    /\ mainLogged = Nil
    /\ closeCalls = 0
    /\ req = NoRequest
    /\ resp = NoResponse

\* a fresh post table, any configuration that Load can yield
Init ==
    /\ Idle
    /\ config \in [RetryCount : RetryCounts, Interval : Intervals,
                   endpointOk : BOOLEAN]
    /\ table = [i \in 1..MaxId |-> NoItem]
    /\ statusTable \in StatusTableAfterEnsure(config)
    /\ statusItem = NoStatus
    /\ scanOrder = [i \in 1..MaxId |-> i]

\* ------------------------------------------------------------ action parts
\* IngestData is entered and calls fetchPosts
BeginCycle(kind) ==
    /\ cycleKind' = kind
    /\ active' = active + 1
    /\ pc' = "loop"
    /\ attempt' = 0
    /\ lastErr' = Nil
    /\ posts' = NilPosts
    /\ fetchErr' = Nil
    /\ transformed' = <<>>
    /\ storeIdx' = 0
    /\ storeErr' = Nil
    /\ cycleErr' = Nil
    /\ calls' = 0
    /\ waits' = <<>>
    /\ responses' = <<>>
    /\ storeCalls' = 0
    /\ logged' = Nil
    /\ dropped' = FALSE

\* the locals of a finished IngestData call go out of scope
ClearLocals ==
    /\ attempt' = 0
    /\ lastErr' = Nil
    /\ posts' = NilPosts
    /\ fetchErr' = Nil
    /\ transformed' = <<>>
    /\ storeIdx' = 0
    /\ storeErr' = Nil
    /\ cycleErr' = Nil
    /\ calls' = 0
    /\ waits' = <<>>
    /\ responses' = <<>>
    /\ storeCalls' = 0
    /\ dropped' = FALSE

\* the locals of a returned fetchPosts call go out of scope
ClearFetchLocals ==
    /\ attempt' = 0
    /\ lastErr' = Nil
    /\ calls' = 0
    /\ waits' = <<>>
    /\ responses' = <<>>

KeepLocals ==
    UNCHANGED <<attempt, lastErr, posts, fetchErr, transformed, storeIdx,
                storeErr, cycleErr, calls, waits, responses, storeCalls,
                dropped>>

\* fetchPosts returns
FetchReturn(ps, err) ==
    /\ posts' = ps
    /\ fetchErr' = err
    /\ pc' = "fetched"

\* fetchPosts after fetchPostsOnce returned res with res.err # nil
AttemptFailed(res) ==
    /\ lastErr' = res.err
    /\ responses' = Append(responses, [ok |-> FALSE, batch |-> res.posts])
    /\ IF ~Retryable(res.err)
       THEN FetchReturn(NilPosts, res.err) /\ UNCHANGED <<attempt, waits>>
       ELSE IF ShouldWait(attempt, RetryCount)
            THEN /\ waits' = Append(waits, BackoffWait(attempt))
                 /\ attempt' = attempt
                 /\ IF cancelled /\ "done" \in BackoffCases
                    THEN FetchReturn(NilPosts, BackoffCancelErr(res.err))
                    ELSE pc' = "backoff" /\ UNCHANGED <<posts, fetchErr>>
            ELSE /\ attempt' = attempt + 1
                 /\ pc' = "loop"
                 /\ UNCHANGED <<waits, posts, fetchErr>>

\* IngestData returns err
CycleReturn(err) ==
    /\ cycleErr' = err
    /\ active' = active - 1
    /\ statusItem' = StatusAfterCycle(statusItem, err, Len(transformed))
    /\ pc' = "cycle_ret"

\* Start returns err; the deferred ticker.Stop runs if the ticker exists
StartReturn(err) ==
    /\ startRet' = err
    /\ tickerState' = IF tickerState = "running" THEN "stopped" ELSE tickerState
    /\ pc' = "returned"

\* ------------------------------------------------------------------ actions
\* Start is called: the initial IngestData
StartCall ==
    /\ ProcessAlive(mainPc)
    /\ pc = "idle"
    /\ BeginCycle("initial")
    /\ UNCHANGED <<mainVars, storageVars, apiVars, config, cancelled, chosen, startRet, tickerState,
                   tickPending, table, statusItem, clock>>

\* fetchPosts: the loop condition fails
LoopExit ==
    /\ ProcessAlive(mainPc)
    /\ pc = "loop"
    /\ ~HasAttempt(attempt, RetryCount)
    /\ FetchReturn(NilPosts, ExhaustedErr(RetryCount, lastErr))
    /\ UNCHANGED <<mainVars, storageVars, apiVars, dropped, config, cancelled, chosen, cycleKind, attempt, lastErr,
                   transformed, storeIdx, storeErr, cycleErr, startRet, logged,
                   tickerState, tickPending, calls, waits, responses,
                   storeCalls, active, table, statusItem, clock>>

\* fetchPosts calls fetchPostsOnce: request creation and httpClient.Do
AttemptBegin ==
    /\ ProcessAlive(mainPc)
    /\ pc = "loop"
    /\ HasAttempt(attempt, RetryCount)
    /\ calls' = calls + 1
    /\ IF ~config.endpointOk
       THEN AttemptFailed(fetchPostsOnce("create", NilPosts))
       ELSE IF cancelled
            THEN AttemptFailed(fetchPostsOnce("cancelled", NilPosts))
            ELSE /\ pc' = "http"
                 /\ UNCHANGED <<attempt, lastErr, posts, fetchErr, waits, responses>>
    /\ UNCHANGED <<mainVars, storageVars, apiVars, dropped, config, cancelled, chosen, cycleKind, transformed, storeIdx, storeErr,
                   cycleErr, startRet, logged, tickerState, tickPending,
                   storeCalls, active, table, statusItem, clock>>

\* the HTTP exchange ends in a failure
HttpFail ==
    /\ ProcessAlive(mainPc)
    /\ pc = "http"
    /\ \E kind \in (IF cancelled THEN {"cancelled"} ELSE FailKinds) :
          \E b \in (IF kind = "decode" THEN Batches ELSE {NilPosts}) :
             AttemptFailed(fetchPostsOnce(kind, b))
    /\ UNCHANGED <<mainVars, storageVars, apiVars, dropped, config, cancelled, chosen, cycleKind, transformed, storeIdx, storeErr,
                   cycleErr, startRet, logged, tickerState, tickPending, calls,
                   storeCalls, active, table, statusItem, clock>>

\* the HTTP exchange ends with status 200 and a decodable body: fetchPosts
\* returns the records, its lastErr is not used again.  The source API answers
\* at most MaxClock requests successfully in one run.
HttpOk ==
    /\ ProcessAlive(mainPc)
    /\ pc = "http"
    /\ ~cancelled
    /\ clock <= MaxClock
    /\ \E b \in Batches :
          LET res == fetchPostsOnce("ok", b)
          IN  /\ responses' = Append(responses, [ok |-> res.err = Nil, batch |-> res.posts])
              /\ FetchReturn(res.posts, res.err)
    /\ lastErr' = Nil
    /\ UNCHANGED <<mainVars, storageVars, apiVars, dropped, config, cancelled, chosen, cycleKind, attempt,
                   transformed, storeIdx, storeErr, cycleErr, startRet, logged,
                   tickerState, tickPending, calls, waits, storeCalls, active,
                   table, statusItem, clock>>

\* the timer of time.After fires while fetchPosts is blocked in its select
TimerFire ==
    /\ ProcessAlive(mainPc)
    /\ pc = "backoff"
    /\ chosen = "none"
    /\ "timer" \in BackoffCases
    /\ chosen' = "timer"
    /\ UNCHANGED <<mainVars, storageVars, apiVars, dropped, config, cancelled, pc, cycleKind, attempt, lastErr, posts,
                   fetchErr, transformed, storeIdx, storeErr, cycleErr, startRet, logged,
                   tickerState, tickPending, calls, waits, responses,
                   storeCalls, active, table, statusItem, clock>>

\* fetchPosts resumes from its select
BackoffResume ==
    /\ ProcessAlive(mainPc)
    /\ pc = "backoff"
    /\ chosen # "none"
    /\ chosen' = "none"
    /\ IF chosen = "done"
       THEN FetchReturn(NilPosts, BackoffCancelErr(lastErr)) /\ UNCHANGED attempt
       ELSE attempt' = attempt + 1 /\ pc' = "loop" /\ UNCHANGED <<posts, fetchErr>>
    /\ UNCHANGED <<mainVars, storageVars, apiVars, dropped, config, cancelled, cycleKind, lastErr, transformed, storeIdx, storeErr,
                   cycleErr, startRet, logged, tickerState, tickPending, calls,
                   waits, responses, storeCalls, active, table, statusItem,
                   clock>>

\* IngestData after fetchPosts failed
FetchFailed ==
    /\ ProcessAlive(mainPc)
    /\ pc = "fetched"
    /\ ~ReachesStore(fetchErr)
    /\ CycleReturn(FetchStepErr(fetchErr))
    /\ ClearFetchLocals
    /\ UNCHANGED <<mainVars, storageVars, apiVars, dropped, config, cancelled, chosen, cycleKind, posts, fetchErr,
                   transformed, storeIdx, storeErr, startRet, logged,
                   tickerState, tickPending, storeCalls, table, clock>>

\* IngestData after fetchPosts succeeded: transformPosts, then StorePosts is
\* called; an empty batch makes StorePosts return nil without a write
TransformAndStore ==
    /\ ProcessAlive(mainPc)
    /\ pc = "fetched"
    /\ ReachesStore(fetchErr)
    /\ transformed' = StoreArg(posts, clock)
    /\ clock' = clock + 1
    /\ storeCalls' = storeCalls + 1
    /\ IF Len(transformed') = 0
       THEN CycleReturn(Nil) /\ UNCHANGED storeIdx
       ELSE storeIdx' = 1 /\ pc' = "store" /\ UNCHANGED <<cycleErr, active, statusItem>>
    /\ ClearFetchLocals
    /\ UNCHANGED <<mainVars, storageVars, apiVars, dropped, config, cancelled, chosen, cycleKind, posts, fetchErr,
                   storeErr, startRet, logged, tickerState, tickPending, table>>

\* StorePosts: PutItemWithContext of record storeIdx succeeds
PutItemOk ==
    /\ ProcessAlive(mainPc)
    /\ pc = "store"
    /\ ~cancelled
    /\ table' = PutItem(table, transformed[storeIdx])
    /\ IF storeIdx = Len(transformed)
       THEN CycleReturn(Nil) /\ UNCHANGED storeIdx
       ELSE storeIdx' = storeIdx + 1 /\ UNCHANGED <<pc, cycleErr, active, statusItem>>
    /\ UNCHANGED <<mainVars, storageVars, apiVars, dropped, config, cancelled, chosen, cycleKind, attempt, lastErr,
                   posts, fetchErr, transformed, storeErr, startRet, logged, tickerState,
                   tickPending, calls, waits, responses, storeCalls, clock>>

\* StorePosts: PutItemWithContext of record storeIdx fails
PutItemFail ==
    /\ ProcessAlive(mainPc)
    /\ pc = "store"
    /\ LET cause == IF cancelled THEN CtxErr ELSE <<E("dynamodb", 0)>>
       IN  storeErr' = PutErr(transformed[storeIdx].id, cause)
    /\ table' = TableOnPutFailure(table, transformed, storeIdx)
    /\ CycleReturn(StoreStepErr(storeErr'))
    /\ UNCHANGED <<mainVars, storageVars, apiVars, dropped, config, cancelled, chosen, cycleKind, attempt, lastErr,
                   posts, fetchErr, transformed, storeIdx, startRet, logged,
                   tickerState, tickPending, calls, waits, responses,
                   storeCalls, clock>>

\* Start after the initial IngestData returned
AfterInitial ==
    /\ ProcessAlive(mainPc)
    /\ pc = "cycle_ret"
    /\ cycleKind = "initial"
    /\ IF InitialFails(cycleErr)
       THEN StartReturn(InitialErr(cycleErr)) /\ KeepLocals
       ELSE /\ ClearLocals
            /\ IF TickerPanics(Interval)
               THEN pc' = "panicked" /\ UNCHANGED <<startRet, tickerState>>
               ELSE pc' = "select" /\ tickerState' = "running" /\ UNCHANGED startRet
    /\ UNCHANGED <<mainVars, storageVars, apiVars, config, cancelled, chosen, cycleKind, logged, tickPending,
                   active, table, statusItem, clock>>

\* Start after a periodic IngestData returned
AfterPeriodic ==
    /\ ProcessAlive(mainPc)
    /\ pc = "cycle_ret"
    /\ cycleKind = "periodic"
    /\ logged' = cycleErr
    /\ IF PeriodicFails(cycleErr)
       THEN StartReturn(cycleErr) /\ KeepLocals
       ELSE pc' = "select" /\ ClearLocals /\ UNCHANGED <<startRet, tickerState>>
    /\ UNCHANGED <<mainVars, storageVars, apiVars, config, cancelled, chosen, cycleKind, tickPending, active,
                   table, statusItem, clock>>

\* Start enters its select with the context already done and takes that case
SelectDone ==
    /\ ProcessAlive(mainPc)
    /\ AtSelect(pc)
    /\ "done" \in SelectReady(cancelled, tickPending > 0)
    /\ StartReturn(DoneResult)
    /\ UNCHANGED <<mainVars, storageVars, apiVars, dropped, config, cancelled, chosen, cycleKind, attempt, lastErr,
                   posts, fetchErr, transformed, storeIdx, storeErr, cycleErr, logged,
                   tickPending, calls, waits, responses, storeCalls, active,
                   table, statusItem, clock>>

\* Start enters its select with a tick in the channel and takes that case
SelectTick ==
    /\ ProcessAlive(mainPc)
    /\ AtSelect(pc)
    /\ "tick" \in SelectReady(cancelled, tickPending > 0)
    /\ tickPending' = tickPending - 1
    /\ BeginCycle("periodic")
    /\ UNCHANGED <<mainVars, storageVars, apiVars, config, cancelled, chosen, startRet, tickerState,
                   table, statusItem, clock>>

\* Start enters its select with no case ready and blocks
SelectBlock ==
    /\ ProcessAlive(mainPc)
    /\ AtSelect(pc)
    /\ SelectReady(cancelled, tickPending > 0) = {}
    /\ pc' = "select_wait"
    /\ UNCHANGED <<mainVars, storageVars, apiVars, dropped, config, cancelled, chosen, cycleKind, attempt, lastErr,
                   posts, fetchErr, transformed, storeIdx, storeErr, cycleErr, startRet,
                   logged, tickerState, tickPending, calls, waits, responses,
                   storeCalls, active, table, statusItem, clock>>

\* Start resumes from its select with the case it was woken with
SelectResume ==
    /\ ProcessAlive(mainPc)
    /\ pc = "select_wait"
    /\ chosen # "none"
    /\ chosen' = "none"
    /\ IF chosen = "done"
       THEN /\ StartReturn(DoneResult)
            /\ UNCHANGED <<cycleKind, attempt, lastErr, posts, fetchErr,
                           transformed, storeIdx, storeErr, cycleErr, calls, waits,
                           responses, storeCalls, active, logged, dropped>>
       ELSE /\ BeginCycle("periodic")
            /\ UNCHANGED <<startRet, tickerState>>
    /\ UNCHANGED <<mainVars, storageVars, apiVars, config, cancelled, tickPending, table, statusItem, clock>>

\* the ticker fires: the tick is handed to a receiver blocked in the select,
\* else buffered if the channel has room, else dropped
Tick ==
    /\ ProcessAlive(mainPc)
    /\ tickerState = "running"
    /\ IF pc = "select_wait" /\ chosen = "none" /\ "tick" \in SelectCases
       THEN chosen' = "tick" /\ UNCHANGED <<tickPending, dropped>>
       ELSE IF ~ChannelFull(tickPending)
            THEN tickPending' = tickPending + 1 /\ UNCHANGED <<chosen, dropped>>
            ELSE dropped' = (dropped \/ Busy(pc)) /\ UNCHANGED <<chosen, tickPending>>
    /\ UNCHANGED <<mainVars, storageVars, apiVars, config, cancelled, pc, cycleKind, attempt, lastErr, posts,
                   fetchErr, transformed, storeIdx, storeErr, cycleErr, startRet, logged,
                   tickerState, calls, waits, responses, storeCalls, active,
                   table, statusItem, clock>>

\* main receives SIGINT / SIGTERM from sigChan and calls httpServer.Shutdown
\* with a context that expires after the grace period
Signal ==
    /\ mainPc = "wait_signal"
    /\ pc # "panicked"
    /\ mainPc' = "shutdown"
    /\ UNCHANGED <<mainLogged, closeCalls, storageVars, apiVars, dropped, config, cancelled,
                   pc, chosen, cycleKind, attempt, lastErr, posts, fetchErr,
                   transformed, storeIdx, storeErr, cycleErr, startRet, logged,
                   tickerState, tickPending, calls, waits, responses,
                   storeCalls, active, table, statusItem, clock>>

\* httpServer.Shutdown has returned (the server has drained or the grace period
\* has expired) and main cancels the run context; a goroutine blocked in a
\* select on ctx.Done() is woken with that case
Cancel ==
    /\ CancelPoint(mainPc)
    /\ ~cancelled
    /\ pc # "panicked"
    /\ mainPc' = "done"
    /\ cancelled' = TRUE
    /\ chosen' = IF /\ chosen = "none"
                    /\ \/ pc = "backoff" /\ "done" \in BackoffCases
                       \/ pc = "select_wait" /\ "done" \in SelectCases
                 THEN "done" ELSE chosen
    /\ UNCHANGED <<mainLogged, closeCalls, storageVars, apiVars, dropped, config, pc, cycleKind,
                   attempt, lastErr, posts, fetchErr,
                   transformed, storeIdx, storeErr, cycleErr, startRet, logged,
                   tickerState, tickPending, calls, waits, responses,
                   storeCalls, active, table, statusItem, clock>>

\* main: the goroutine that called Start prints the error Start returned and
\* ends
IngestorExit ==
    /\ ProcessAlive(mainPc)
    /\ pc = "returned"
    /\ mainLogged = Nil
    /\ mainLogged' = startRet
    /\ mainPc' = IF StartErrorEndsProcess(startRet) THEN "exited" ELSE mainPc
    /\ UNCHANGED <<closeCalls, storageVars, apiVars, dropped, config, cancelled, pc, chosen,
                   cycleKind, attempt, lastErr,
                   posts, fetchErr, transformed, storeIdx, storeErr, cycleErr,
                   startRet, logged, tickerState, tickPending, calls, waits,
                   responses, storeCalls, active, table, statusItem, clock>>

\* main returns after cancel(): the deferred store.Close runs and the process
\* ends, whatever the goroutine running Start is doing; its steps end here
MainExit ==
    /\ mainPc = "done"
    /\ ExitAllowed(pc)
    /\ mainPc' = "exited"
    /\ closeCalls' = closeCalls + 1
    /\ UNCHANGED <<mainLogged, storageVars, apiVars, dropped, config, cancelled, pc, chosen,
                   cycleKind, attempt, lastErr, posts, fetchErr, transformed,
                   storeIdx, storeErr, cycleErr, startRet, logged, tickerState,
                   tickPending, calls, waits, responses, storeCalls, active,
                   table, statusItem, clock>>

\* ------------------------------------------------------------- API server
\* GET /health
HandleHealth ==
    /\ Serving(mainPc)
    /\ \E m \in Methods :
          /\ req' = [NoRequest EXCEPT !.route = "/health", !.method = m]
          /\ resp' = handleHealth(m)
    /\ UNCHANGED <<ingestVars, scanOrder>>

\* /posts?limit=..&offset=..
HandlePosts ==
    /\ Serving(mainPc)
    /\ \E m \in Methods, ls \in ParamStrings, os \in ParamStrings, f \in BOOLEAN :
          /\ req' = [NoRequest EXCEPT !.route = "/posts", !.method = m, !.limit = ls,
                                      !.offset = os, !.fail = f]
          /\ resp' = handlePosts(m, ls, os, table, scanOrder, f)
    /\ UNCHANGED <<ingestVars, scanOrder>>

\* /posts/{id}
HandlePostByID ==
    /\ Serving(mainPc)
    /\ \E m \in Methods, ids \in ParamStrings, f \in BOOLEAN :
          /\ req' = [NoRequest EXCEPT !.route = "/posts/", !.method = m, !.id = ids,
                                      !.fail = f]
          /\ resp' = handlePostByID(m, ids, table, f)
    /\ UNCHANGED <<ingestVars, scanOrder>>

\* /status
HandleStatus ==
    /\ Serving(mainPc)
    /\ \E m \in Methods :
          /\ req' = [NoRequest EXCEPT !.route = "/status", !.method = m]
          /\ resp' = IF m # "GET" THEN MethodNotAllowed
                     ELSE LET h == handleStatus(GetIngestionStatus(statusTable, statusItem))
                          IN  [code |-> h.code, calls |-> <<"GetIngestionStatus">>,
                               body |-> [status |-> h.status, records |-> h.records]]
    /\ UNCHANGED <<ingestVars, scanOrder>>

\* the post table as some earlier ingestion left it
StoredTables ==
    {t \in [1..MaxId -> {NoItem} \cup {transformPosts(<<q>>, 1)[1] : q \in PostSet}] :
        \A i \in 1..MaxId : t[i] # NoItem => t[i].id = i}

\* the API server over a store at rest, with the default configuration
ApiInit ==
    /\ Idle
    /\ config = [RetryCount |-> 3, Interval |-> 1, endpointOk |-> TRUE]
    /\ table \in StoredTables
    /\ statusTable \in BOOLEAN
    /\ statusItem = NoStatus
    /\ scanOrder \in ScanOrders

ApiNext ==
    \/ HandleHealth
    \/ HandlePosts
    \/ HandlePostByID
    \/ HandleStatus

ApiSpec == ApiInit /\ [][ApiNext]_vars

Next ==
    \/ StartCall
    \/ LoopExit
    \/ AttemptBegin
    \/ HttpFail
    \/ HttpOk
    \/ TimerFire
    \/ BackoffResume
    \/ FetchFailed
    \/ TransformAndStore
    \/ PutItemOk
    \/ PutItemFail
    \/ AfterInitial
    \/ AfterPeriodic
    \/ SelectDone
    \/ SelectTick
    \/ SelectBlock
    \/ SelectResume
    \/ Tick
    \/ Signal
    \/ Cancel
    \/ IngestorExit
    \/ MainExit

Spec == Init /\ [][Next]_vars

\* -------------------------------------------------------------- properties
Msg(err) == IF err = Nil THEN "" ELSE err[1].msg
Cause(err) == IF err = Nil THEN Nil ELSE Tail(err)
AllFailed(rs) == \A i \in 1..Len(rs) : ~rs[i].ok
LastOk(rs) == rs # <<>> /\ rs[Len(rs)].ok
CycleStart == pc = "loop" /\ attempt = 0 /\ calls = 0

C2_AsStated ==
    (pc = "fetched" /\ ~cancelled /\ AllFailed(responses)) =>
        /\ calls = RetryCount
        /\ Len(waits) = RetryCount - 1
        /\ posts = NilPosts
        /\ fetchErr = <<E("failed after attempts", RetryCount)>> \o lastErr
        /\ lastErr # Nil

\* C2 for RetryCount N >= 1, where the loop of fetchPosts runs: the N-1 waits
\* are 1s, ..., (N-1)s.
C2_Exhausted ==
    (pc = "fetched" /\ ~cancelled /\ AllFailed(responses) /\ RetryCount >= 1) =>
        /\ calls = RetryCount
        /\ Len(responses) = RetryCount
        /\ waits = [i \in 1..(RetryCount - 1) |-> i]
        /\ posts = NilPosts
        /\ fetchErr = <<E("failed after attempts", RetryCount)>> \o lastErr
        /\ lastErr # Nil

C2_Witness ==
    /\ pc = "fetched" /\ ~cancelled /\ RetryCount = 3
    /\ calls = 3 /\ waits = <<1, 2>> /\ fetchErr # Nil

\* C3: a cancellation that arrives while fetchPosts is blocked in a backoff
\* wait wakes it with the ctx.Done case, and its next step returns nil
\* records and the context's error, which is not the failed attempt's error,
\* without another fetchPostsOnce call.
C3_CancelInBackoff ==
    [][/\ (pc = "backoff" /\ chosen = "none" /\ ~cancelled /\ cancelled') =>
              (pc' = "backoff" /\ chosen' = "done")
       /\ (pc = "backoff" /\ chosen = "done") =>
              \/ pc' = "backoff" /\ chosen' = "done" /\ calls' = calls
              \/ /\ pc' = "fetched"
                 /\ posts' = NilPosts
                 /\ fetchErr' = CtxErr
                 /\ fetchErr' # lastErr
                 /\ calls' = calls]_vars

C3_Witness == pc = "backoff" /\ chosen = "done" /\ cancelled /\ lastErr # Nil

\* C4: when the initial IngestData fails, the next step of Start returns that
\* error wrapped as the initial-ingestion failure; no ticker exists, no tick is
\* ever buffered and no periodic cycle runs after that return.
C4_InitialFailureFatal ==
    /\ [][(pc = "cycle_ret" /\ cycleKind = "initial" /\ cycleErr # Nil /\ pc' # pc) =>
              /\ pc' = "returned"
              /\ startRet' = <<E("initial ingestion failed", 0)>> \o cycleErr
              /\ tickerState' = "none"]_vars
    /\ [][pc = "returned" => (pc' = "returned" /\ cycleKind' = cycleKind /\ active' = 0)]_vars
    /\ []((pc = "returned" /\ Msg(startRet) = "initial ingestion failed") =>
              /\ tickerState = "none"
              /\ tickPending = 0
              /\ cycleKind = "initial"
              /\ Cause(startRet) = cycleErr)

C4_Witness ==
    /\ pc = "returned" /\ Msg(startRet) = "initial ingestion failed"
    /\ Msg(Cause(startRet)) = "failed to store posts"

\* C5: a failing periodic cycle makes Start print the error and go back to its
\* select with the ticker running, and unless the context is cancelled another
\* cycle starts afterwards.
C5_PeriodicFailureSwallowed ==
    /\ [][(pc = "cycle_ret" /\ cycleKind = "periodic" /\ cycleErr # Nil /\ pc' # pc) =>
              /\ pc' = "select"
              /\ logged' = cycleErr
              /\ startRet' = Nil
              /\ tickerState' = "running"]_vars
    /\ ((pc = "cycle_ret" /\ cycleKind = "periodic" /\ cycleErr # Nil)
            ~> (cancelled \/ CycleStart))

C5_Witness ==
    /\ pc = "select_wait" /\ cycleKind = "periodic" /\ logged # Nil /\ ~cancelled
    /\ tickerState = "running" /\ startRet = Nil

\* C6: at most one IngestData invocation is in progress at any time, also when
\* ticks fire while a cycle is running.
C6_OneCycleAtATime == active <= 1

C6_Witness ==
    /\ active = 1 /\ cycleKind = "periodic" /\ tickPending = 1 /\ pc = "store"

\* C7: within a cycle StorePosts is not called before fetchPosts has returned
\* without error, is called at most once, with the transform of exactly the
\* fetched batch; a cycle whose fetch failed returns the fetch error tagged
\* "failed to fetch posts" without calling StorePosts, and a cycle returns nil
\* exactly when fetchPosts and StorePosts both returned nil.
C7_FetchTransformStore ==
    /\ storeCalls <= 1
    /\ pc \in {"loop", "http", "backoff", "fetched"} => storeCalls = 0
    /\ storeCalls = 1 =>
          /\ fetchErr = Nil
          /\ \E t \in 1..MaxClock : transformed = transformPosts(posts, t)
    /\ pc = "cycle_ret" =>
          /\ storeCalls = 1 <=> fetchErr = Nil
          /\ fetchErr # Nil =>
                cycleErr = <<E("failed to fetch posts", 0)>> \o fetchErr
          /\ cycleErr = Nil <=> (fetchErr = Nil /\ storeErr = Nil)

C7_Witness ==
    /\ pc = "cycle_ret" /\ storeCalls = 1 /\ cycleErr = Nil
    /\ Len(transformed) = 2 /\ transformed[1].id # transformed[2].id

\* C8: a cycle in which StorePosts failed returns an error tagged "failed to
\* store posts" that wraps the storage error, and the status record read after
\* it does not say success.
C8_StoreFailure ==
    (pc = "cycle_ret" /\ storeErr # Nil) =>
        /\ storeCalls = 1
        /\ cycleErr = <<E("failed to store posts", 0)>> \o storeErr
        /\ GetIngestionStatus(statusTable, statusItem).status # "success"

C8_Witness ==
    /\ pc = "cycle_ret" /\ storeErr # Nil /\ ~cancelled /\ storeIdx = 2

\* C9: Start never returns nil; once the initial cycle has succeeded it
\* returns only with the context cancelled, and then exactly ctx.Err().
C9_ReturnsCtxErr ==
    pc = "returned" =>
        /\ startRet # Nil
        /\ (cycleKind = "periodic" \/ cycleErr = Nil) =>
              (cancelled /\ startRet = CtxErr)

C9_Witness ==
    /\ pc = "returned" /\ startRet = CtxErr /\ cycleKind = "periodic"

C11_InitialFailureEndsProcess ==
    Msg(mainLogged) = "initial ingestion failed" => ~Serving(mainPc)

C13_NoPartialFetch ==
    /\ \A kind \in FailKinds \cup {"create", "cancelled"}, b \in Batches :
          /\ fetchPostsOnce(kind, b).err # Nil
          /\ fetchPostsOnce(kind, b).posts = NilPosts
    /\ \A i \in 1..Len(responses) :
          /\ ~responses[i].ok => responses[i].batch = NilPosts
          /\ responses[i].ok => (i = Len(responses) /\ pc = "fetched")
    /\ (responses # <<>> /\ ~LastOk(responses)) => lastErr # Nil
    /\ pc = "fetched" =>
          \/ fetchErr = Nil /\ LastOk(responses) /\ posts = responses[Len(responses)].batch
          \/ fetchErr # Nil /\ ~LastOk(responses) /\ posts = NilPosts

C13_Witness ==
    /\ pc = "fetched" /\ fetchErr # Nil /\ posts = NilPosts /\ Len(responses) = 2
    /\ Msg(lastErr) = "failed to unmarshal response"

\* C14: without cancellation and with RetryCount >= 1, the attempt number,
\* the number of fetchPostsOnce calls and the backoff waits of a running
\* fetchPosts are determined by the number of failed attempts alone, whatever
\* the kinds of the failures: failure number i is followed by the wait of i
\* seconds and attempt i+1, and fetchPosts gives up only after RetryCount
\* failures.
C14_FailuresAlike ==
    (pc \in {"loop", "http", "backoff", "fetched"} /\ ~cancelled /\ RetryCount >= 1) =>
        LET f == IF LastOk(responses) THEN Len(responses) - 1 ELSE Len(responses)
            w == IF f < RetryCount THEN f ELSE RetryCount - 1
        IN  /\ AllFailed(SubSeq(responses, 1, f))
            /\ f <= RetryCount
            /\ waits = [i \in 1..w |-> i]
            /\ pc = "loop" => (attempt = f /\ calls = f)
            /\ pc = "http" => (attempt = f /\ calls = f + 1 /\ f < RetryCount)
            /\ pc = "backoff" => (attempt = f - 1 /\ calls = f /\ f < RetryCount)
            /\ (pc = "fetched" /\ fetchErr # Nil) => f = RetryCount

C14_Witness ==
    /\ pc = "fetched" /\ ~cancelled /\ fetchErr # Nil /\ waits = <<1, 2>>
    /\ Msg(lastErr) = "failed to read response body"

\* C15: the ticker channel never holds more than one tick, a tick that fires
\* while a cycle is running never adds a second one, and taking the pending
\* tick starts exactly one periodic cycle and leaves no tick pending: after a
\* cycle during which several ticks fired, one catch-up cycle starts.
C15_TicksNotQueued ==
    /\ [](tickPending <= 1)
    /\ [][Busy(pc) => tickPending' >= tickPending]_vars
    /\ [][tickPending' < tickPending =>
              /\ tickPending' = 0
              /\ AtSelect(pc)
              /\ CycleStart' /\ cycleKind' = "periodic" /\ active' = 1]_vars

C15_Witness ==
    /\ pc = "cycle_ret" /\ cycleKind = "periodic" /\ dropped /\ tickPending = 1

\* C16: the waits of one fetchPosts call grow geometrically: each wait is
\* longer than the one before it, and the ratio of successive waits is the same
\* throughout the call.
C16_ExponentialBackoff ==
    /\ \A i \in 1..(Len(waits) - 1) : waits[i + 1] > waits[i]
    /\ \A i \in 2..(Len(waits) - 1) :
          waits[i + 1] * waits[i - 1] = waits[i] * waits[i]

\* C17: where the status table exists, the status record read when a cycle has
\* returned describes that cycle: no error, status "success" and the batch
\* size as records_ingested after a successful cycle, status "failure" after a
\* failed one.
C17_StatusTracksCycle ==
    (pc = "cycle_ret" /\ statusTable) =>
        LET st == GetIngestionStatus(statusTable, statusItem)
        IN  /\ st.err = Nil
            /\ cycleErr = Nil => (st.status = "success" /\ st.records = Len(transformed))
            /\ cycleErr # Nil => st.status = "failure"

C19_FreshStatusNeverRun ==
    pc = "idle" =>
        LET st == GetIngestionStatus(statusTable, statusItem)
        IN  st.err = Nil /\ st.status = "never_run"

\* C20: while StorePosts runs, the records before the one being written are in
\* the table and the others of the batch are not; when the write of record j
\* fails, StorePosts returns an error naming record j, the cycle returns an
\* error, the records before j are still in the table and records j.. are
\* not; StorePosts returns nil only with every record of the batch in the
\* table.
C20_StoreAllOrFailed ==
    LET Written(i) == table[transformed[i].id] = transformed[i]
    IN  /\ pc = "store" =>
              /\ storeErr = Nil
              /\ \A i \in 1..Len(transformed) : Written(i) <=> i < storeIdx
        /\ (pc = "cycle_ret" /\ storeCalls = 1 /\ storeErr # Nil) =>
              /\ storeErr[1] = E("failed to store post", transformed[storeIdx].id)
              /\ cycleErr # Nil
              /\ \A i \in 1..Len(transformed) : Written(i) <=> i < storeIdx
        /\ (pc = "cycle_ret" /\ storeCalls = 1 /\ storeErr = Nil) =>
              \A i \in 1..Len(transformed) : Written(i)

C20_Witness ==
    /\ pc = "cycle_ret" /\ cycleKind = "periodic" /\ storeErr # Nil /\ storeIdx = 2
    /\ table[transformed[1].id] = transformed[1]
    /\ table[transformed[2].id] # NoItem

\* C21: GetPosts paginates: over an unchanged table holding more than limit
\* records it returns at most limit records, and the pages at offsets 0 and
\* limit of the same limit have no record in common
C21_Paginates ==
    \A limit \in 1..MaxId :
        LET page0 == GetPosts(table, scanOrder, limit, 0, FALSE).posts
            page1 == GetPosts(table, scanOrder, limit, limit, FALSE).posts
        IN  Len(Scan(table, scanOrder)) > limit =>
                /\ Len(page0) <= limit
                /\ Len(page1) <= limit
                /\ \A i \in 1..Len(page0), j \in 1..Len(page1) : page0[i].id # page1[j].id

\* C22 (as stated): on a shutdown signal the run context is cancelled first and
\* the API server is drained afterwards, so the server never stops serving
\* while the run context is still live
C22_AsStated == ~Serving(mainPc) => cancelled

\* C22 (amended): on a shutdown signal main first shuts the API server down,
\* waiting no longer than the grace period, only then cancels the run context,
\* and calls storage Close exactly once, after both, as it returns
C22_ShutdownOrder ==
    /\ [](cancelled => ~Serving(mainPc))
    /\ [][cancelled' /\ ~cancelled => mainPc = "shutdown" /\ mainPc' = "done"]_vars
    /\ [](mainPc = "shutdown" /\ pc # "panicked" => ENABLED Cancel)
    /\ [](closeCalls = (IF mainPc = "exited" THEN 1 ELSE 0))
    /\ [][closeCalls' # closeCalls => cancelled /\ ~Serving(mainPc)]_vars

C22_Witness == mainPc = "exited" /\ closeCalls = 1 /\ cancelled

\* C23: GET /posts uses limit 10 and offset 0 unless the parameter parses as an
\* integer > 0 (limit) or >= 0 (offset): "", "abc", "-1" and, for limit, "0"
\* fall back to the default; the response echoes the values handed to
\* Storage.GetPosts, and count is the number of posts returned
C23_PostsParameters ==
    (req.route = "/posts" /\ req.method = "GET" /\ ~req.fail) =>
        /\ resp.code = 200
        /\ resp.calls = <<"GetPosts">>
        /\ (req.limit \in {"", "abc", "-1", "0"} => resp.body.limit = 10)
        /\ (\A n \in ParamInts : n > 0 /\ req.limit = ToString(n) => resp.body.limit = n)
        /\ (req.offset \in {"", "abc", "-1"} => resp.body.offset = 0)
        /\ (\A n \in ParamInts : n >= 0 /\ req.offset = ToString(n) => resp.body.offset = n)
        /\ resp.body.passed = [limit |-> resp.body.limit, offset |-> resp.body.offset]
        /\ resp.body.posts
              = GetPosts(table, scanOrder, resp.body.limit, resp.body.offset, FALSE).posts
        /\ resp.body.count = Len(resp.body.posts)

C23_Witness ==
    /\ req.route = "/posts" /\ req.method = "GET" /\ ~req.fail
    /\ req.limit = "-1" /\ req.offset = "1"
    /\ resp.code = 200
    /\ resp.body.limit = 10 /\ resp.body.offset = 1
    /\ resp.body.count = 2

\* C24: GET /posts/{id} answers 400 without a storage call when the id, the
\* empty one included, is not an integer; else it calls GetPostByID once and
\* answers 500 when that fails, 404 when it finds no record, 200 with the
\* record otherwise; the answer is exactly one of the four
C24_PostByIDOutcomes ==
    (req.route = "/posts/" /\ req.method = "GET") =>
        LET bad == req.id \in {"", "abc"}
            id == Atoi(req.id).n
            present == id \in 1..MaxId /\ table[id] # NoItem
        IN  /\ resp.code \in {400, 500, 404, 200}
            /\ resp.code = 400 <=> bad
            /\ resp.code = 500 <=> ~bad /\ req.fail
            /\ resp.code = 404 <=> ~bad /\ ~req.fail /\ ~present
            /\ resp.code = 200 <=> ~bad /\ ~req.fail /\ present
            /\ resp.calls = IF bad THEN <<>> ELSE <<"GetPostByID">>
            /\ resp.code = 200 => resp.body = table[id] /\ resp.body.id = id

C24_Witness ==
    /\ req.route = "/posts/" /\ req.method = "GET" /\ ~req.fail
    /\ req.id = ToString(MaxId + 1)
    /\ resp.code = 404
    /\ \E i \in 1..MaxId : table[i] # NoItem

\* C25: the API is read-only: whatever the route, the method and the
\* parameters, a handler calls none of StorePosts, UpdateIngestionStatus and
\* Close, and the post table, the status table and the status item are what
\* they were before the request
C25_ApiReadOnly ==
    [][/\ \A i \in 1..Len(resp'.calls) :
             resp'.calls[i] \in {"GetPosts", "GetPostByID", "GetIngestionStatus"}
       /\ table' = table
       /\ statusTable' = statusTable
       /\ statusItem' = statusItem
       /\ closeCalls' = closeCalls
       /\ storeCalls' = storeCalls]_vars

C25_Witness ==
    /\ req.route = "/posts" /\ req.method = "POST"
    /\ resp.code = 405
    /\ resp.calls = <<>>
    /\ \E i \in 1..MaxId : table[i] # NoItem

\* C26: main does not wait for the goroutine running Start: once cancel() has
\* been called main can return, closing storage and ending the process, at any
\* position of the goroutine, a cycle between two PutItem calls included
C26_NoJoin == mainPc = "done" => ENABLED MainExit

C26_Witness ==
    /\ mainPc = "exited"
    /\ closeCalls = 1
    /\ pc = "store"
    /\ storeIdx = 2
    /\ active = 1

\* C27: once the run context has been cancelled no IngestData call begins: a
\* tick buffered in ticker.C at the cancellation, or delivered after it, is
\* never the case the select of Start takes
C27_NoCycleAfterCancel ==
    [][cancelled => ~(active' > active /\ cycleKind' = "periodic")]_vars

\* C28: StorePosts writes record by record, so a reader can meet a table in
\* which part of a batch is written; when a cycle has returned nil every stored
\* record whose id is in its batch carries the one timestamp of that batch,
\* for GetPostByID and for GetPosts alike, and the table is written nowhere
\* but inside StorePosts, so this lasts until the next cycle stores
C28_BatchTimestamp ==
    /\ [](pc = "cycle_ret" /\ cycleErr = Nil =>
            /\ \A i \in 1..Len(transformed) :
                  LET r == GetPostByID(table, transformed[i].id, FALSE)
                  IN  /\ r.found
                      /\ r.err = Nil
                      /\ r.post.ingestedAt = transformed[1].ingestedAt
            /\ \A o \in ScanOrders :
                  LET page == GetPosts(table, o, MaxId, 0, FALSE).posts
                  IN  \A k \in 1..Len(page) :
                        (\E i \in 1..Len(transformed) : transformed[i].id = page[k].id)
                            => page[k].ingestedAt = transformed[1].ingestedAt)
    /\ [][pc # "store" => table' = table]_vars

\* a reader during StorePosts: the first record of the batch is written, the
\* second still carries the timestamp of the previous batch
C28_Witness ==
    /\ pc = "store"
    /\ storeIdx = 2
    /\ Len(transformed) = 2
    /\ GetPostByID(table, transformed[1].id, FALSE).post.ingestedAt
            = transformed[1].ingestedAt
    /\ GetPostByID(table, transformed[2].id, FALSE).found
    /\ GetPostByID(table, transformed[2].id, FALSE).post.ingestedAt
            < transformed[2].ingestedAt
    /\ \E o \in ScanOrders :
          LET page == GetPosts(table, o, MaxId, 0, FALSE).posts
          IN  Len(page) = 2 /\ page[1].ingestedAt # page[2].ingestedAt

\* C29: for every RetryCount that getEnvInt can yield, zero and negative ones
\* included, a fetchPosts call has made at least one and at most RetryCount
\* fetchPostsOnce calls when it returns
C29_AttemptsWithinRetryCount ==
    pc = "fetched" => calls >= 1 /\ calls <= RetryCount

\* C30: for every Interval that getEnvDuration can yield, zero and negative ones
\* included, Start goes from a successful initial cycle to the select on the
\* ticker and never crashes
C30_TimerWaitReached == pc # "panicked"

\* a step in which PutItemWithContext of record storeIdx succeeded
PutSucceeded ==
    /\ pc = "store"
    /\ \/ pc' = "store" /\ storeIdx' = storeIdx + 1
       \/ pc' = "cycle_ret" /\ cycleErr' = Nil

\* C31: the post table holds one record per id, stored under that id, and as
\* many posts as ids that are found; a successful write of StorePosts makes
\* GetPostByID of the written id return the written record, replacing what
\* was stored, and changes no other id; no other step changes the table, so
\* an id never written is not found and a written one returns its latest
\* written record
C31_OneRecordPerId ==
    /\ [](\A id \in 1..MaxId :
            LET r == GetPostByID(table, id, FALSE) IN r.found => r.post.id = id)
    /\ [](\A o \in ScanOrders :
            Len(Scan(table, o))
                = Cardinality({id \in 1..MaxId : GetPostByID(table, id, FALSE).found}))
    /\ [][PutSucceeded =>
            \A id \in 1..MaxId :
                GetPostByID(table', id, FALSE)
                    = IF id = transformed[storeIdx].id
                      THEN [post |-> transformed[storeIdx], found |-> TRUE, err |-> Nil]
                      ELSE GetPostByID(table, id, FALSE)]_vars
    /\ [][~PutSucceeded => table' = table]_vars

\* a second batch has been stored over the first: one id carries the later
\* timestamp, the other still the earlier one
C31_Witness ==
    /\ pc = "cycle_ret"
    /\ cycleErr = Nil
    /\ Len(transformed) = 1
    /\ GetPostByID(table, transformed[1].id, FALSE).post = transformed[1]
    /\ transformed[1].ingestedAt = 2
    /\ \E id \in 1..MaxId :
          /\ GetPostByID(table, id, FALSE).found
          /\ GetPostByID(table, id, FALSE).post.ingestedAt = 1
    /\ ~GetPostByID(table, MaxId + 1, FALSE).found

\* C32 (as stated): for every RetryCount a fetchPosts call has made at most
\* RetryCount attempts and at most RetryCount - 1 backoff waits when it returns
C32_AttemptsAndWaitsBounded ==
    pc = "fetched" => calls <= RetryCount /\ Len(waits) <= RetryCount - 1

\* C32, the termination itself: with every attempt ending and every timer
\* firing, a fetchPosts call that is running returns, and so does the
\* IngestData call around it
C32_FetchTerminates ==
    /\ pc \in {"loop", "http", "backoff"} ~> pc = "fetched"
    /\ Busy(pc) /\ pc # "cycle_ret" ~> pc = "cycle_ret"

\* ---------------------------------------------------------------- fairness
\* the steps of the goroutine running Start, its blocking calls included:
\* every HTTP exchange ends (http.Client.Timeout) and every PutItem returns
Goroutine ==
    \/ StartCall
    \/ LoopExit
    \/ AttemptBegin
    \/ HttpFail
    \/ HttpOk
    \/ BackoffResume
    \/ FetchFailed
    \/ TransformAndStore
    \/ PutItemOk
    \/ PutItemFail
    \/ AfterInitial
    \/ AfterPeriodic
    \/ SelectBlock
    \/ SelectResume
    \/ IngestorExit

\* the goroutine is scheduled, timers and the ticker fire, and a select with
\* several ready cases picks each of them with non-zero probability
\* of main only the signal and cancel(): the behaviours in which the process is
\* still running, since the return of main ends the goroutine wherever it is
LiveNext ==
    \/ Goroutine
    \/ TimerFire
    \/ Tick
    \/ SelectDone
    \/ SelectTick
    \/ Signal
    \/ Cancel

LiveSpec ==
    /\ Init
    /\ [][LiveNext]_vars
    /\ WF_vars(Goroutine)
    /\ WF_vars(TimerFire)
    /\ WF_vars(Tick)
    /\ WF_vars(SelectTick)
    /\ SF_vars(SelectDone)
====
